---- MODULE Spec2Model ----
(***************************************************************************)
(* Lifecycle of one pipeline step on a Kubernetes cluster, as implemented  *)
(* by engine.Kubernetes (src/engine/engine_impl.go): Setup, Run            *)
(* (waitForReady + start) and Destroy, run by one caller against a         *)
(* namespace that the platform and other actors change concurrently.       *)
(***************************************************************************)
EXTENDS Integers, Sequences, FiniteSets, TLC

\* Number of Setup/Run/Destroy invocations the caller makes in one behaviour.
MaxOps == 3

\* ---------------------------------------------------------------- values

\* The objects addressed for one Spec: spec.PullSecret.Name (secret),
\* spec.PodSpec.Name as a secret, as a config map and as a pod.
PullObj == "pullsecret"
SecretObj == "secret"
ConfigMapObj == "configmap"
PodObj == "pod"

\* Pod names seen through the label selector: the Spec's pod and another one.
TargetName == "build"
OtherName == "other"

\* Exit statuses a CodeExitError can carry.
ExitStatuses == {1, 137}

\* error values: kind "nil" is Go's nil error.
Err(k, o, c) == [kind |-> k, obj |-> o, code |-> c]
NilErr == Err("nil", "none", 0)
NotFound(o) == Err("NotFound", o, 0)
AlreadyExists(o) == Err("AlreadyExists", o, 0)
ServerError(o) == Err("ServerError", o, 0)
CodeExitError(n) == Err("CodeExitError", "exec", n)
TransportError == Err("TransportError", "exec", 0)
ExecutorError == Err("ExecutorError", "exec", 0)
ErrWaitTimeout == Err("ErrWaitTimeout", "wait", 0)
ErrSync == Err("UnableToSyncCaches", "wait", 0)
\* "no result yet" for the readiness wait of the current Run
Pending == Err("pending", "none", 0)

\* *State: isNil is Go's nil pointer.
NilState == [isNil |-> TRUE, Exited |-> FALSE, ExitCode |-> 0, OOMKilled |-> FALSE]

\* the State start builds before the stream
NewState == [isNil |-> FALSE, Exited |-> TRUE, ExitCode |-> 0, OOMKilled |-> FALSE]

\* the combined error of Destroy: a nil error interface or a *multierror.Error
NilResult == [isNil |-> TRUE, Errors |-> <<>>]

VARIABLES
    hasPull,        \* spec.PullSecret != nil
    reliableDelete, \* the platform never rejects the deletion of an existing object
    objs,           \* objects of this Spec that exist in the namespace
    podPhase,       \* pod.Status.Phase of the Spec's pod
    otherPod,       \* "never" | "present": another pod under the selector
    cancelled,      \* ctx.Done() is closed
    cancelAt,       \* where the caller was when ctx was cancelled ("none": not yet)
    pc,             \* where the caller's goroutine is
    lastOp,         \* the operation running or last returned
    opsDone,        \* the operations that returned before lastOp, in order
    calls,          \* remote calls of the current/last operation, with outcomes
    setupErr,       \* Setup's return value
    result,         \* Destroy's `result`
    waitRes,        \* waitForReady's return value in the current/last Run
    runState,       \* Run's returned *State
    runErr,         \* Run's returned error
    executorErr,    \* what NewSPDYExecutor returned in the current/last Run
    streamErr,      \* what executor.Stream returned in the current/last Run
    flushed,        \* both nicelog sinks were flushed in the current/last Run
    listed,         \* the informer of the current wait has listed and is watching
    initialCount,   \* initial list items not yet processed by the informer
    fifo,           \* informer deltas not yet processed
    indexer,        \* names in the informer's store
    ch,             \* events in the watcher's result channel
    lastEvent,      \* the last event the condition loop consumed (empty: none)
    precond,        \* "none" | "absent" | "present": what preconditionFunc found
    envTouched      \* another actor created or deleted an object of this Spec

vars == <<hasPull, reliableDelete, objs, podPhase, otherPod, cancelled, cancelAt, pc,
          lastOp,
          opsDone, calls, setupErr, result, waitRes, runState, runErr, executorErr,
          streamErr,
          flushed, listed, initialCount, fifo, indexer, ch, lastEvent, precond,
          envTouched>>

specVars == <<hasPull, reliableDelete>>
storeVars == <<objs, podPhase>>
ctxVars == <<cancelled, cancelAt>>
setupVars == <<setupErr>>
destroyVars == <<result>>
runVars == <<waitRes, runState, runErr, executorErr, streamErr, flushed>>
informerVars == <<listed, initialCount, fifo, indexer, ch, lastEvent, precond>>

Event(t, n, p) == [type |-> t, name |-> n, phase |-> p]
Call(op, o, e) == [op |-> op, obj |-> o, err |-> e]

\* ------------------------------------------------------------- platform

\* create-object: fails when the object exists, may fail for any other reason
CreateOutcomes(o) ==
    IF o \in objs THEN {AlreadyExists(o), ServerError(o)}
    ELSE {NilErr, ServerError(o)}

\* delete-object: fails when the object is absent; an existing object is deleted
\* unless the platform rejects the request
DeleteOutcomes(o) ==
    IF o \notin objs THEN {NotFound(o)}
    ELSE IF reliableDelete THEN {NilErr}
    ELSE {NilErr, ServerError(o)}

\* the watch stream of the running informer carries every change of a pod
\* that matches the label selector
Notify(e) == IF listed THEN Append(fifo, e) ELSE fifo

Init ==
    /\ hasPull \in BOOLEAN
    /\ reliableDelete \in BOOLEAN
    /\ objs = {}
    /\ podPhase = "None"
    /\ otherPod = "never"
    /\ cancelled = FALSE
    /\ cancelAt = "none"
    /\ pc = "idle"
    /\ lastOp = "none"
    /\ opsDone = <<>>
    /\ calls = <<>>
    /\ setupErr = NilErr
    /\ result = NilResult
    /\ waitRes = Pending
    /\ runState = NilState
    /\ runErr = NilErr
    /\ executorErr = Pending
    /\ streamErr = Pending
    /\ flushed = FALSE
    /\ listed = FALSE
    /\ initialCount = 0
    /\ fifo = <<>>
    /\ indexer = {}
    /\ ch = <<>>
    /\ lastEvent = <<>>
    /\ precond = "none"
    /\ envTouched = FALSE

\* ------------------------------------------------------------ environment

\* The context, the pod's phase and the other pods under the selector are
\* read by Run alone (ctx is unused in Setup and Destroy), and the config map
\* by Destroy alone: a change made before the operation is called is the same
\* change made at its first step, and the environment is modelled from there.
\* For the same reason nothing changes between two operations.
InRun == lastOp = "Run" /\ pc # "idle"
InDestroy == lastOp = "Destroy" /\ pc # "idle"

\* the platform's control loops move the pod through its phases
PhaseSuccessors(p) ==
    CASE p = "Pending" -> {"Running", "Failed"}
      [] p = "Running" -> {"Succeeded", "Failed"}
      [] OTHER -> {}

PodPhaseChange ==
    /\ InRun
    /\ PodObj \in objs
    /\ \E p \in PhaseSuccessors(podPhase) :
        /\ podPhase' = p
        /\ fifo' = Notify(Event("Modified", TargetName, p))
    /\ UNCHANGED <<specVars, objs, otherPod, ctxVars, pc, lastOp, opsDone, calls,
                   setupVars, destroyVars, runVars, listed, initialCount, indexer,
                   ch, lastEvent, precond, envTouched>>

\* another actor deletes the pod out from under the core
ExternalDeletePod ==
    /\ pc # "idle"
    /\ PodObj \in objs
    /\ objs' = objs \ {PodObj}
    /\ podPhase' = "None"
    /\ fifo' = Notify(Event("Deleted", TargetName, podPhase))
    /\ envTouched' = TRUE
    /\ UNCHANGED <<specVars, otherPod, ctxVars, pc, lastOp, opsDone, calls,
                   setupVars, destroyVars, runVars, listed, initialCount, indexer,
                   ch, lastEvent, precond>>

\* another actor creates a config map under the pod's name
ExternalCreateConfigMap ==
    /\ InDestroy
    /\ ConfigMapObj \notin objs
    /\ objs' = objs \cup {ConfigMapObj}
    /\ envTouched' = TRUE
    /\ UNCHANGED <<specVars, podPhase, otherPod, ctxVars, pc, lastOp, opsDone, calls,
                   setupVars, destroyVars, runVars, informerVars>>

\* another running pod that matches the selector appears
OtherPodAppears ==
    /\ InRun
    /\ otherPod = "never"
    /\ otherPod' = "present"
    /\ fifo' = Notify(Event("Added", OtherName, "Running"))
    /\ UNCHANGED <<specVars, storeVars, ctxVars, pc, lastOp, opsDone, calls,
                   setupVars, destroyVars, runVars, listed, initialCount, indexer,
                   ch, lastEvent, precond, envTouched>>

\* the caller cancels the context of the call: the wait is bound to it, and a
\* goroutine parked in a select on ctx.Done() is woken with that case chosen
WokenByDone(at) ==
    CASE at = "wf_sync_parked" -> "wf_sync_done"
      [] at = "wf_parked" -> "wf_done"
      [] OTHER -> at

Cancel ==
    /\ InRun
    /\ ~cancelled
    /\ cancelled' = TRUE
    /\ cancelAt' = pc
    /\ pc' = WokenByDone(pc)
    /\ UNCHANGED <<specVars, storeVars, otherPod, lastOp, opsDone, calls,
                   setupVars, destroyVars, runVars, informerVars, envTouched>>

\* ------------------------------------------------------------------ Setup

\* the caller is single-threaded: it invokes the next operation when the
\* previous one has returned
OpsInvoked == Len(opsDone) + (IF lastOp = "none" THEN 0 ELSE 1)

\* the operation that returned last ended on its nominal path: Setup and Destroy
\* returned nil, Run saw the pod running and its process exit with status 0
LastClean ==
    CASE lastOp = "Setup" -> setupErr = NilErr
      [] lastOp = "Destroy" -> result.isNil
      [] lastOp = "Run" -> /\ precond = "present"
                           /\ waitRes = NilErr
                           /\ runErr = NilErr
                           /\ ~runState.isNil
                           /\ runState.ExitCode = 0
      [] OTHER -> FALSE

\* the caller invokes op with the ctx of this call: what the previous
\* operation returned is summarised in opsDone, the variables hold the results
\* of the running operation only
Invoke(op, first, limit) ==
    /\ pc = "idle"
    /\ OpsInvoked < limit
    /\ pc' = first
    /\ lastOp' = op
    /\ opsDone' = IF lastOp = "none" THEN opsDone
                  ELSE Append(opsDone, [op |-> lastOp, clean |-> LastClean])
    /\ calls' = <<>>
    /\ setupErr' = NilErr
    /\ result' = NilResult
    /\ waitRes' = Pending
    /\ runState' = NilState
    /\ runErr' = NilErr
    /\ executorErr' = Pending
    /\ streamErr' = Pending
    /\ flushed' = FALSE
    /\ listed' = FALSE
    /\ initialCount' = 0
    /\ fifo' = <<>>
    /\ indexer' = {}
    /\ ch' = <<>>
    /\ lastEvent' = <<>>
    /\ precond' = "none"
    /\ cancelled' = FALSE
    /\ cancelAt' = "none"
    /\ UNCHANGED <<specVars, storeVars, otherPod, envTouched>>

SetupCall(limit) ==
    Invoke("Setup", IF hasPull THEN "setup_pull" ELSE "setup_secret", limit)

\* where Setup goes after the creation at `step` returned err
\* (faulty variants: a failed creation does not end Setup; a failed creation
\* is attempted again)
SetupAfterContinue(step, err) ==
    CASE step = "setup_pull" -> "setup_secret"
      [] step = "setup_secret" -> "setup_pod"
      [] step = "setup_pod" -> "idle"

SetupAfterRetry(step, err) ==
    IF err # NilErr THEN IF Len(calls) = 0 THEN step ELSE "idle"
    ELSE CASE step = "setup_pull" -> "setup_secret"
           [] step = "setup_secret" -> "setup_pod"
           [] step = "setup_pod" -> "idle"

SetupAfter(step, err) ==
    IF err # NilErr THEN "idle"
    ELSE CASE step = "setup_pull" -> "setup_secret"
           [] step = "setup_secret" -> "setup_pod"
           [] step = "setup_pod" -> "idle"

\* the object each creation of Setup creates
SetupObject(step) ==
    CASE step = "setup_pull" -> PullObj
      [] step = "setup_secret" -> SecretObj
      [] step = "setup_pod" -> PodObj

SetupCreate ==
    /\ pc \in {"setup_pull", "setup_secret", "setup_pod"}
    /\ LET o == SetupObject(pc) IN
       \E err \in CreateOutcomes(o) :
        /\ calls' = Append(calls, Call("create", o, err))
        /\ objs' = IF err = NilErr THEN objs \cup {o} ELSE objs
        /\ podPhase' = IF err = NilErr /\ o = PodObj THEN "Pending" ELSE podPhase
        /\ setupErr' = err
        /\ pc' = SetupAfter(pc, err)
    /\ UNCHANGED <<specVars, otherPod, ctxVars, lastOp, opsDone, destroyVars,
                   runVars, informerVars, envTouched>>

\* ---------------------------------------------------------------- Destroy

DestroyCall(limit) ==
    Invoke("Destroy", IF hasPull THEN "destroy_pull" ELSE "destroy_secret", limit)

\* multierror.Append(result, err)
\* (faulty variant: only the first failure is kept)
multierrorAppendFirstOnly(res, err) ==
    IF res.isNil THEN [isNil |-> FALSE, Errors |-> <<err>>] ELSE res

multierrorAppend(res, err) ==
    [isNil |-> FALSE, Errors |-> Append(res.Errors, err)]

\* where Destroy goes after the deletion at `step` returned err
\* (faulty variant: the first failure aborts Destroy)
DestroyAfterAbort(step, err) ==
    IF err # NilErr THEN "idle"
    ELSE CASE step = "destroy_pull" -> "destroy_secret"
           [] step = "destroy_secret" -> "destroy_configmap"
           [] step = "destroy_configmap" -> "destroy_pod"
           [] step = "destroy_pod" -> "idle"

\* (faulty variant: Destroy starts over when the pod's deletion failed)
DestroyAfterStartOver(step, err) ==
    CASE step = "destroy_pull" -> "destroy_secret"
      [] step = "destroy_secret" -> "destroy_configmap"
      [] step = "destroy_configmap" -> "destroy_pod"
      [] step = "destroy_pod" -> IF err # NilErr THEN "destroy_secret" ELSE "idle"

DestroyAfter(step, err) ==
    CASE step = "destroy_pull" -> "destroy_secret"
      [] step = "destroy_secret" -> "destroy_configmap"
      [] step = "destroy_configmap" -> "destroy_pod"
      [] step = "destroy_pod" -> "idle"

\* the object each deletion of Destroy addresses
\* (faulty variant: the last deletion addresses the config map again)
DestroyObjectNoPod(step) ==
    CASE step = "destroy_pull" -> PullObj
      [] step = "destroy_secret" -> SecretObj
      [] step = "destroy_configmap" -> ConfigMapObj
      [] step = "destroy_pod" -> ConfigMapObj

DestroyObject(step) ==
    CASE step = "destroy_pull" -> PullObj
      [] step = "destroy_secret" -> SecretObj
      [] step = "destroy_configmap" -> ConfigMapObj
      [] step = "destroy_pod" -> PodObj

DestroyDelete ==
    /\ pc \in {"destroy_pull", "destroy_secret", "destroy_configmap", "destroy_pod"}
    /\ LET o == DestroyObject(pc) IN
       \E err \in DeleteOutcomes(o) :
        /\ calls' = Append(calls, Call("delete", o, err))
        /\ objs' = IF err = NilErr THEN objs \ {o} ELSE objs
        /\ podPhase' = IF err = NilErr /\ o = PodObj THEN "None" ELSE podPhase
        /\ result' = IF err # NilErr THEN multierrorAppend(result, err) ELSE result
        /\ pc' = DestroyAfter(pc, err)
    /\ UNCHANGED <<specVars, otherPod, ctxVars, lastOp, opsDone, setupVars,
                   runVars, informerVars, envTouched>>

\* -------------------------------------------------------------------- Run

\* the caller is inside watchtools.UntilWithSync: polling or parked in
\* WaitForCacheSync, at the precondition, or in UntilWithoutRetry's loop (about
\* to select, parked in the select, or woken with one of its cases chosen)
WaitPcs == {"wf_sync", "wf_sync_parked", "wf_sync_done", "wf_precond",
            "wf_loop", "wf_parked", "wf_recv", "wf_done"}

RunCall(limit) == Invoke("Run", "wf_sync", limit)

\* the pod built by toPod carries the label io.drone.name=<spec.PodSpec.Name>
\* that the list and the watch select on
PodCarriesLabel == TRUE

\* lw.ListFunc: the pods that carry the label io.drone.name=<name>, as the
\* informer hands them on: one Added event each
ListSnapshot ==
    (IF PodObj \in objs /\ PodCarriesLabel THEN <<Event("Added", TargetName, podPhase)>> ELSE <<>>)
    \o (IF otherPod = "present" THEN <<Event("Added", OtherName, "Running")>> ELSE <<>>)

\* the informer lists, then watches from the list's resource version
InformerList ==
    /\ pc \in WaitPcs
    /\ ~listed
    /\ listed' = TRUE
    /\ fifo' = ListSnapshot
    /\ initialCount' = Len(ListSnapshot)
    /\ calls' = calls \o <<Call("list", PodObj, NilErr), Call("watch", PodObj, NilErr)>>
    /\ UNCHANGED <<specVars, storeVars, otherPod, ctxVars, pc, lastOp, opsDone,
                   setupVars, destroyVars, runVars, indexer, ch, lastEvent, precond,
                   envTouched>>

\* the informer's store after one delta
ApplyDelta(store, e) ==
    IF e.type = "Deleted" THEN store \ {e.name} ELSE store \cup {e.name}

\* the informer processes one delta: updates its store, hands the event on;
\* a goroutine parked in the select on the result channel is woken with the
\* receive chosen
InformerProcess ==
    /\ pc \in WaitPcs
    /\ listed
    /\ fifo # <<>>
    /\ indexer' = ApplyDelta(indexer, Head(fifo))
    /\ ch' = Append(ch, Head(fifo))
    /\ fifo' = Tail(fifo)
    /\ initialCount' = IF initialCount > 0 THEN initialCount - 1 ELSE 0
    /\ pc' = IF pc = "wf_parked" THEN "wf_recv" ELSE pc
    /\ UNCHANGED <<specVars, storeVars, otherPod, ctxVars, lastOp, opsDone, calls,
                   setupVars, destroyVars, runVars, listed, lastEvent, precond,
                   envTouched>>

HasSynced == listed /\ initialCount = 0

\* Run, after waitForReady returned err
\* (faulty variants: the error is not checked; Run deletes the pod when the
\* wait failed)
RunAfterWaitIgnoreErr(err) == "start_executor"

RunAfterWaitCleanup(err) == IF err # NilErr THEN "destroy_pod" ELSE "start_executor"

RunAfterWait(err) == IF err # NilErr THEN "idle" ELSE "start_executor"

\* what Run returns when waitForReady returned the error err: <<*State, error>>
\* (faulty variant: the error is swallowed)
RunReturnAfterWaitSwallowed(err) == <<NilState, NilErr>>

RunReturnAfterWait(err) == <<NilState, err>>

\* UntilWithSync returns err: the informer is stopped, waitFor and
\* waitForReady hand err to Run
WaitReturn(err) ==
    /\ waitRes' = err
    /\ pc' = RunAfterWait(err)
    /\ runState' = IF err # NilErr THEN RunReturnAfterWait(err)[1] ELSE runState
    /\ runErr' = IF err # NilErr THEN RunReturnAfterWait(err)[2] ELSE runErr
    /\ listed' = FALSE
    /\ initialCount' = 0
    /\ fifo' = <<>>
    /\ indexer' = {}
    /\ ch' = <<>>

\* cache.WaitForCacheSync(ctx.Done(), informer.HasSynced): the poll finds the
\* cache synced, or parks until the next tick or ctx.Done(); with ctx.Done()
\* closed the select may choose it
WaitSync ==
    /\ \/ /\ pc = "wf_sync"
          /\ HasSynced
          /\ pc' = "wf_precond"
          /\ UNCHANGED <<runVars, informerVars>>
       \/ /\ pc = "wf_sync"
          /\ ~HasSynced
          /\ ~cancelled
          /\ pc' = "wf_sync_parked"
          /\ UNCHANGED <<runVars, informerVars>>
       \/ /\ \/ pc = "wf_sync" /\ cancelled
             \/ pc = "wf_sync_done"
          /\ WaitReturn(ErrSync)
          /\ UNCHANGED <<executorErr, streamErr, flushed, lastEvent, precond>>
    /\ UNCHANGED <<specVars, storeVars, otherPod, ctxVars, lastOp, opsDone, calls,
                   setupVars, destroyVars, envTouched>>

\* the poll period of WaitForCacheSync elapses
SyncTick ==
    /\ pc = "wf_sync_parked"
    /\ pc' = "wf_sync"
    /\ UNCHANGED <<specVars, storeVars, otherPod, ctxVars, lastOp, opsDone, calls,
                   setupVars, destroyVars, runVars, informerVars, envTouched>>

\* preconditionFunc(store): <<done, err>>
\* (faulty variant: done when the pod exists)
preconditionFuncInverted(store) ==
    IF TargetName \notin store THEN <<FALSE, NilErr>> ELSE <<TRUE, NilErr>>

preconditionFunc(store) ==
    IF TargetName \notin store THEN <<TRUE, NilErr>> ELSE <<FALSE, NilErr>>

Precondition ==
    /\ pc = "wf_precond"
    /\ LET r == preconditionFunc(indexer) IN
        /\ precond' = IF TargetName \in indexer THEN "present" ELSE "absent"
        /\ IF r[2] # NilErr
           THEN WaitReturn(r[2])
           ELSE IF r[1]
                THEN WaitReturn(NilErr)
                ELSE /\ pc' = "wf_loop"
                     /\ UNCHANGED <<waitRes, runState, runErr, listed, initialCount,
                                    fifo, indexer, ch>>
    /\ UNCHANGED <<specVars, storeVars, otherPod, ctxVars, lastOp, opsDone, calls,
                   setupVars, destroyVars, executorErr, streamErr, flushed, lastEvent,
                   envTouched>>

\* the conditionFunc of waitForReady
\* (faulty variants: Added events are ignored; the name is not compared; the
\* phase is not compared)
conditionFuncAnyPhase(e) ==
    /\ e.type \in {"Added", "Modified"}
    /\ e.name = TargetName

conditionFuncModifiedOnly(e) ==
    /\ e.type = "Modified"
    /\ e.name = TargetName
    /\ e.phase = "Running"

conditionFuncAnyName(e) ==
    /\ e.type \in {"Added", "Modified"}
    /\ e.phase = "Running"

conditionFunc(e) ==
    /\ e.type \in {"Added", "Modified"}
    /\ e.name = TargetName
    /\ e.phase = "Running"

\* UntilWithoutRetry: select on the result channel and on ctx.Done(). With
\* neither ready the goroutine parks; with both ready either case is chosen.
LoopPark ==
    /\ pc = "wf_loop"
    /\ ch = <<>>
    /\ ~cancelled
    /\ pc' = "wf_parked"
    /\ UNCHANGED <<specVars, storeVars, otherPod, ctxVars, lastOp, opsDone, calls,
                   setupVars, destroyVars, runVars, informerVars, envTouched>>

\* case event := <-ch
LoopEvent ==
    /\ pc \in {"wf_loop", "wf_recv"}
    /\ ch # <<>>
    /\ lastEvent' = <<Head(ch)>>
    /\ IF conditionFunc(Head(ch))
       THEN WaitReturn(NilErr)
       ELSE /\ ch' = Tail(ch)
            /\ pc' = "wf_loop"
            /\ UNCHANGED <<waitRes, runState, runErr, listed, initialCount, fifo,
                           indexer>>
    /\ UNCHANGED <<specVars, storeVars, otherPod, ctxVars, lastOp, opsDone, calls,
                   setupVars, destroyVars, executorErr, streamErr, flushed, precond,
                   envTouched>>

\* case <-ctx.Done()
LoopCancelled ==
    /\ \/ pc = "wf_loop" /\ cancelled
       \/ pc = "wf_done"
    /\ WaitReturn(ErrWaitTimeout)
    /\ UNCHANGED <<specVars, storeVars, otherPod, ctxVars, lastOp, opsDone, calls,
                   setupVars, destroyVars, executorErr, streamErr, flushed, lastEvent, precond,
                   envTouched>>

\* start, after NewSPDYExecutor returned err: where it goes, and the
\* <<*State, error>> it returns when it returns there
\* (faulty variant: the State is built before the check and returned with the error)
StartAfterExecutorWithState(err) ==
    IF err # NilErr THEN <<"idle", NewState, err>> ELSE <<"start_stream", NilState, NilErr>>

StartAfterExecutor(err) ==
    IF err # NilErr THEN <<"idle", NilState, err>> ELSE <<"start_stream", NilState, NilErr>>

\* remotecommand.NewSPDYExecutor
StartExecutor ==
    /\ pc = "start_executor"
    /\ \E err \in {NilErr, ExecutorError} :
        /\ executorErr' = err
        /\ pc' = StartAfterExecutor(err)[1]
        /\ runState' = StartAfterExecutor(err)[2]
        /\ runErr' = StartAfterExecutor(err)[3]
    /\ UNCHANGED <<specVars, storeVars, otherPod, ctxVars, lastOp, opsDone, calls,
                   setupVars, destroyVars, waitRes, streamErr, flushed, informerVars,
                   envTouched>>

\* executor.Stream opens the exec connection: the platform refuses the
\* attach unless the pod is running
StartStream ==
    /\ pc = "start_stream"
    /\ pc' = "streaming"
    /\ calls' = Append(calls, Call("exec", PodObj,
                 IF PodObj \in objs /\ podPhase = "Running" THEN NilErr ELSE TransportError))
    /\ UNCHANGED <<specVars, storeVars, otherPod, ctxVars, lastOp, opsDone,
                   setupVars, destroyVars, runVars, informerVars, envTouched>>

\* what executor.Stream can return
StreamOutcomes ==
    IF calls[Len(calls)].err # NilErr THEN {TransportError}
    ELSE {NilErr, TransportError} \cup {CodeExitError(n) : n \in ExitStatuses}

\* start, after the flushes: <<*State, error>> for what Stream returned
\* (faulty variant: an exit status is returned as an error)
StartResultStateWithError(err) ==
    IF err # NilErr
    THEN IF err.kind # "CodeExitError" THEN <<NilState, err>>
         ELSE <<[NewState EXCEPT !.ExitCode = err.code], err>>
    ELSE <<NewState, NilErr>>

StartResultExitIsError(err) ==
    IF err # NilErr THEN <<NilState, err>> ELSE <<NewState, NilErr>>

StartResult(err) ==
    IF err # NilErr
    THEN IF err.kind # "CodeExitError"
         THEN <<NilState, err>>
         ELSE <<[NewState EXCEPT !.ExitCode = err.code], NilErr>>
    ELSE <<NewState, NilErr>>

\* executor.Stream returns; both sinks are flushed; the result is classified
StreamReturn ==
    /\ pc = "streaming"
    /\ \E err \in StreamOutcomes :
        /\ streamErr' = err
        /\ flushed' = TRUE
        /\ runState' = StartResult(err)[1]
        /\ runErr' = StartResult(err)[2]
    /\ pc' = "idle"
    /\ UNCHANGED <<specVars, storeVars, otherPod, ctxVars, lastOp, opsDone, calls,
                   setupVars, destroyVars, waitRes, executorErr, informerVars,
                   envTouched>>

\* the steps of a behaviour in which the caller invokes at most `limit` operations
Steps(limit) ==
    \/ PodPhaseChange
    \/ ExternalDeletePod
    \/ ExternalCreateConfigMap
    \/ OtherPodAppears
    \/ Cancel
    \/ SetupCall(limit)
    \/ SetupCreate
    \/ DestroyCall(limit)
    \/ DestroyDelete
    \/ RunCall(limit)
    \/ InformerList
    \/ InformerProcess
    \/ WaitSync
    \/ Precondition
    \/ SyncTick
    \/ LoopPark
    \/ LoopEvent
    \/ LoopCancelled
    \/ StartExecutor
    \/ StartStream
    \/ StreamReturn

Next == Steps(MaxOps)

Spec == Init /\ [][Next]_vars

\* The goroutines of the wait (the caller's, the informer's, the poll timer)
\* are scheduled as long as they can take a step. The liveness claims are
\* about one Run, and are checked on the lifecycles of at most MaxLiveOps
\* operations.
MaxLiveOps == 2

WaitFairness ==
    /\ WF_vars(InformerList)
    /\ WF_vars(InformerProcess)
    /\ WF_vars(WaitSync)
    /\ WF_vars(SyncTick)
    /\ WF_vars(Precondition)
    /\ WF_vars(LoopPark)
    /\ WF_vars(LoopEvent)
    /\ WF_vars(LoopCancelled)

LiveNext == Steps(MaxLiveOps)

FairSpec == Init /\ [][LiveNext]_vars /\ WaitFairness

\* ----------------------------------------------------------------- claims

Returned(op) == lastOp = op /\ pc = "idle"

IsPrefix(a, b) == Len(a) <= Len(b) /\ \A i \in 1..Len(a) : a[i] = b[i]

CallObjs == [i \in 1..Len(calls) |-> calls[i].obj]

FailedCalls == SelectSeq(calls, LAMBDA c : c.err # NilErr)

\* the order in which the claims expect Destroy's deletions
ExpectedDeletions ==
    (IF hasPull THEN <<PullObj>> ELSE <<>>) \o <<SecretObj, ConfigMapObj, PodObj>>

\* C1: at every point of every Destroy call, whatever ran before it and
\* whatever each deletion returned, the deletions attempted so far are a
\* prefix of the fixed order pull secret (only with a pull credential),
\* secret, config map, pod, each at most once, and when Destroy has returned
\* all of them, the pod's last, have been attempted.
C1_DestroyAttemptsAllInOrder ==
    lastOp = "Destroy" =>
        /\ \A i \in 1..Len(calls) : calls[i].op = "delete"
        /\ IsPrefix(CallObjs, ExpectedDeletions)
        /\ pc = "idle" => CallObjs = ExpectedDeletions

\* a Destroy after Setup and a Run that failed, whose first deletion failed
\* and whose pod deletion succeeded
C1_Witness ==
    /\ Returned("Destroy")
    /\ hasPull
    /\ Len(opsDone) = 2
    /\ opsDone[1].op = "Setup"
    /\ opsDone[2].op = "Run"
    /\ ~opsDone[2].clean
    /\ Len(calls) = 4
    /\ calls[1].err # NilErr
    /\ calls[4].err = NilErr

\* C2: when Destroy has returned, its result is non-nil exactly when one of
\* its deletions failed, and the combined error lists the errors of the failed
\* deletions, one each, in the order of the attempts.
C2_CombinedErrorIsTheFailures ==
    Returned("Destroy") =>
        /\ result.isNil <=> (\A i \in 1..Len(calls) : calls[i].err = NilErr)
        /\ result.Errors = [i \in 1..Len(FailedCalls) |-> FailedCalls[i].err]

\* a Destroy with two failed deletions around a successful one
C2_Witness ==
    /\ Returned("Destroy")
    /\ Len(calls) = 4
    /\ calls[1].err # NilErr
    /\ calls[2].err = NilErr
    /\ calls[4].err # NilErr
    /\ Len(result.Errors) >= 2

\* the happy path up to Destroy: only Setup and Run ran, both on their nominal
\* path, no other actor touched the Spec's objects and the platform deletes
\* every object that exists
HappyPath ==
    /\ Len(opsDone) = 2
    /\ opsDone[1] = [op |-> "Setup", clean |-> TRUE]
    /\ opsDone[2] = [op |-> "Run", clean |-> TRUE]
    /\ reliableDelete
    /\ ~envTouched

\* C3: the Destroy that ends the happy-path lifecycle returns nil.
C3_HappyPathDestroyReturnsNil ==
    (Returned("Destroy") /\ HappyPath) => result.isNil

\* C4: when Destroy has returned after a Setup (complete or aborted at any of
\* its creations), on a platform that deletes every object that exists, none
\* of the objects Setup creates is left.
C4_SetupDestroySymmetry ==
    (/\ Returned("Destroy")
     /\ reliableDelete
     /\ Len(opsDone) >= 1
     /\ opsDone[Len(opsDone)].op = "Setup")
    => objs \cap {PullObj, SecretObj, PodObj} = {}

\* Destroy returned after a Setup with a pull credential that was aborted at
\* its third creation, the first two objects having been created and deleted
C4_Witness ==
    /\ Returned("Destroy")
    /\ reliableDelete
    /\ hasPull
    /\ opsDone = <<[op |-> "Setup", clean |-> FALSE]>>
    /\ calls[1].err = NilErr
    /\ calls[2].err = NilErr
    /\ calls[4].err # NilErr
    /\ objs \cap {PullObj, SecretObj, PodObj} = {}

\* an event the readiness wait is waiting for
RunningEventOfTarget(e) ==
    e \in {Event("Added", TargetName, "Running"), Event("Modified", TargetName, "Running")}

\* the context was cancelled while the caller was inside the wait
CancelledInWait == cancelAt \in WaitPcs

C6_OnlyRunningEventEndsWait ==
    (lastOp = "Run" /\ precond = "present") =>
        /\ waitRes = NilErr => (lastEvent # <<>> /\ RunningEventOfTarget(lastEvent[1]))
        /\ waitRes \notin {Pending, NilErr} => CancelledInWait
        /\ (lastEvent # <<>> /\ ~RunningEventOfTarget(lastEvent[1]) /\ ~CancelledInWait)
            => (pc \in WaitPcs /\ waitRes = Pending)

\* the pod went pending -> failed, the wait consumed that event, nothing more
\* is to come and the wait is parked with the context not cancelled
C6_Witness ==
    /\ lastOp = "Run"
    /\ precond = "present"
    /\ pc = "wf_parked"
    /\ podPhase = "Failed"
    /\ lastEvent = <<Event("Modified", TargetName, "Failed")>>
    /\ fifo = <<>>
    /\ ch = <<>>
    /\ ~cancelled

\* the context was cancelled while the wait was suspended: parked between two
\* polls of the cache sync or in the select of the condition loop
CancelledWhileBlocked ==
    lastOp = "Run" /\ cancelAt \in {"wf_sync_parked", "wf_parked"}

\* C7: when the context is cancelled while the wait is suspended, the wait
\* returns, its result is a non-nil error, never nil, and Run returns a nil
\* State with that error.
C7_CancelUnblocksWithError ==
    /\ [](CancelledWhileBlocked =>
            /\ waitRes \in {Pending, ErrWaitTimeout, ErrSync}
            /\ waitRes # Pending => (pc = "idle" /\ runState.isNil /\ runErr = waitRes))
    /\ (CancelledWhileBlocked ~> (waitRes # Pending))

\* Run returned the cancellation error after a cancel that found the wait
\* parked in the select of the condition loop
C7_Witness ==
    /\ Returned("Run")
    /\ cancelAt = "wf_parked"
    /\ waitRes = ErrWaitTimeout
    /\ runErr = ErrWaitTimeout
    /\ runState.isNil

\* C8: when the precondition finds the pod absent from the store, the wait
\* has returned nil in that step and no event was evaluated; when it finds the
\* pod present, the wait goes on: it ends only on an event or on cancellation.
C8_AbsentShortCircuits ==
    lastOp = "Run" =>
        /\ precond = "absent" =>
            (waitRes = NilErr /\ lastEvent = <<>> /\ pc \notin WaitPcs)
        /\ (precond = "present" /\ lastEvent = <<>> /\ ~CancelledInWait) =>
            (waitRes = Pending /\ pc \in WaitPcs)

\* a Run whose precondition found no pod although one was created by Setup
\* (it was deleted before the informer's store was read)
C8_Witness ==
    /\ lastOp = "Run"
    /\ precond = "absent"
    /\ Len(opsDone) = 1
    /\ opsDone[1] = [op |-> "Setup", clean |-> TRUE]
    /\ waitRes = NilErr
    /\ pc = "start_executor"

ExecCalls == SelectSeq(calls, LAMBDA c : c.op = "exec")

StartPcs == {"start_executor", "start_stream", "streaming"}

\* C9: in a Run, exec is called at most once, start is entered and exec is
\* called only after the wait returned nil, and when the wait returned an
\* error Run has returned a nil State with that error and has not called exec.
C9_ExecOnlyAfterReady ==
    lastOp = "Run" =>
        /\ Len(ExecCalls) <= 1
        /\ (pc \in StartPcs \/ ExecCalls # <<>>) => waitRes = NilErr
        /\ waitRes \notin {Pending, NilErr} =>
            /\ pc = "idle"
            /\ runState.isNil
            /\ runErr = waitRes
            /\ ExecCalls = <<>>

\* Run returned the error of a wait that failed to sync before cancellation
C9_Witness ==
    /\ Returned("Run")
    /\ waitRes = ErrSync
    /\ runErr = ErrSync
    /\ runState.isNil
    /\ ExecCalls = <<>>

\* C10: when Run has returned after executor.Stream returned nil, it returned
\* State{Exited: true, ExitCode: 0, OOMKilled: false} and no error; after a
\* CodeExitError with status n, the same State with ExitCode n and no error.
C10_ExitStatusBecomesState ==
    (Returned("Run") /\ streamErr # Pending) =>
        /\ streamErr = NilErr =>
            /\ runState = [isNil |-> FALSE, Exited |-> TRUE, ExitCode |-> 0,
                           OOMKilled |-> FALSE]
            /\ runErr = NilErr
        /\ streamErr.kind = "CodeExitError" =>
            /\ runState = [isNil |-> FALSE, Exited |-> TRUE,
                           ExitCode |-> streamErr.code, OOMKilled |-> FALSE]
            /\ runErr = NilErr

\* the remote process exited with status 137
C10_Witness ==
    /\ Returned("Run")
    /\ streamErr = CodeExitError(137)
    /\ runState.ExitCode = 137
    /\ runErr = NilErr

\* C11: when Run has returned after NewSPDYExecutor failed, or after
\* executor.Stream returned an error that is no CodeExitError, it returned a nil
\* State and that same error.
C11_HardFailureReturnsRawError ==
    Returned("Run") =>
        /\ executorErr \notin {Pending, NilErr} =>
            (runState.isNil /\ runErr = executorErr /\ streamErr = Pending)
        /\ (streamErr \notin {Pending, NilErr} /\ streamErr.kind # "CodeExitError") =>
            (runState.isNil /\ runErr = streamErr)

\* Run returned the transport error of a stream that the platform had accepted
C11_Witness ==
    /\ Returned("Run")
    /\ ExecCalls # <<>>
    /\ ExecCalls[1].err = NilErr
    /\ streamErr = TransportError
    /\ runErr = TransportError
    /\ runState.isNil

\* the order in which the claims expect Setup's creations
ExpectedCreations ==
    (IF hasPull THEN <<PullObj>> ELSE <<>>) \o <<SecretObj, PodObj>>

\* C12: at every point of every Setup call the creations attempted so far are
\* a prefix of the order pull secret (only with a pull credential), secret,
\* pod, each at most once; only the last of them can have failed, so nothing
\* is attempted after a failure; every object whose creation succeeded is
\* still there; and when Setup has returned it returned the error of its last
\* creation, which is nil only when every creation was attempted and succeeded.
C12_SetupAbortsAtFirstFailure ==
    lastOp = "Setup" =>
        /\ \A i \in 1..Len(calls) : calls[i].op = "create"
        /\ IsPrefix(CallObjs, ExpectedCreations)
        /\ \A i \in 1..(Len(calls) - 1) : calls[i].err = NilErr
        /\ \A i \in 1..Len(calls) : calls[i].err = NilErr => calls[i].obj \in objs
        /\ pc = "idle" =>
            /\ calls # <<>>
            /\ setupErr = calls[Len(calls)].err
            /\ setupErr # NilErr \/ CallObjs = ExpectedCreations

\* a Setup with a pull credential whose pod creation failed: it returned that
\* error and the two secrets it had created are left in place
C12_Witness ==
    /\ Returned("Setup")
    /\ hasPull
    /\ opsDone = <<>>
    /\ Len(calls) = 3
    /\ setupErr = ServerError(PodObj)
    /\ objs = {PullObj, SecretObj}

\* the pod of the Spec never existed: only a Setup that returned nil creates it
PodNeverExisted ==
    \A i \in 1..Len(opsDone) : ~(opsDone[i].op = "Setup" /\ opsDone[i].clean)

\* the running Destroy directly follows another Destroy
SecondDestroy ==
    /\ lastOp = "Destroy"
    /\ opsDone # <<>>
    /\ opsDone[Len(opsDone)].op = "Destroy"

\* a step of Destroy itself: it issues a deletion
DeletionStep == lastOp = "Destroy" /\ pc # "idle" /\ calls' # calls

\* C13 as stated: no deletion of a Destroy that directly follows a Destroy, or
\* that runs when the pod never existed, changes the set of remote objects
\* (no other actor having touched them).
C13_DestroyLeavesObjectsAsTheyWere ==
    [][(DeletionStep /\ ~envTouched /\ (SecondDestroy \/ PodNeverExisted))
        => objs' = objs]_vars

\* C13, amended: every Destroy, a second one in a row and one for objects that
\* never existed included, ends after at most one deletion per object; each
\* deletion removes the object it addresses when it succeeded and changes
\* nothing when it failed; and the combined error Destroy returns holds the
\* errors of the deletions that failed in this call, nil when none did.
C13_DestroyRemovesOnlyWhatItDeleted ==
    /\ [](lastOp = "Destroy" =>
            /\ Len(calls) <= Len(ExpectedDeletions)
            /\ pc = "idle" =>
                /\ result.isNil <=> FailedCalls = <<>>
                /\ Len(result.Errors) = Len(FailedCalls)
                /\ \A i \in 1..Len(FailedCalls) : result.Errors[i] = FailedCalls[i].err)
    /\ [][DeletionStep =>
            /\ Len(calls') = Len(calls) + 1
            /\ LET c == calls'[Len(calls')] IN
               objs' = IF c.err = NilErr THEN objs \ {c.obj} ELSE objs]_vars

\* a second Destroy in a row whose deletions all failed because nothing was
\* left: the remote objects are as they were and the error names all of them
C13_Witness ==
    /\ Returned("Destroy")
    /\ SecondDestroy
    /\ hasPull
    /\ objs = {}
    /\ Len(result.Errors) = 4
    /\ \A i \in 1..4 : result.Errors[i] = NotFound(ExpectedDeletions[i])

\* the running Setup follows a Setup that returned nil, with no Destroy between
SetupAfterSuccessfulSetup ==
    /\ lastOp = "Setup"
    /\ \E i \in 1..Len(opsDone) :
        /\ opsDone[i] = [op |-> "Setup", clean |-> TRUE]
        /\ \A j \in (i + 1)..Len(opsDone) : opsDone[j].op # "Destroy"

\* C14: a Setup that follows a successful Setup with no Destroy in between
\* finds the object of its first creation in place, issues that one creation
\* only, returns the error it got for it, and no step of it adds an object to
\* the remote store.
C14_SecondSetupFailsAtFirstCreation ==
    /\ [](SetupAfterSuccessfulSetup =>
            /\ ExpectedCreations[1] \in objs
            /\ Len(calls) <= 1
            /\ pc = "idle" <=> Len(calls) = 1
            /\ calls # <<>> =>
                /\ calls[1].obj = ExpectedCreations[1]
                /\ calls[1].err # NilErr
                /\ setupErr = calls[1].err)
    /\ [][(SetupAfterSuccessfulSetup /\ pc # "idle") => objs' \subseteq objs]_vars

\* the second Setup in a row, refused because the pull secret already exists
C14_Witness ==
    /\ Returned("Setup")
    /\ hasPull
    /\ opsDone = <<[op |-> "Setup", clean |-> TRUE]>>
    /\ setupErr = AlreadyExists(PullObj)
    /\ objs = {PullObj, SecretObj, PodObj}

\* C15: when Run has returned out of start, whichever way (the stream ended
\* normally, with an exit status or with a transport error, or the executor
\* could not be constructed), both sinks have been flushed.
C15_FlushedOnEveryExit ==
    (Returned("Run") /\ executorErr # Pending) => flushed

\* the context was cancelled while the caller was inside executor.Stream, on
\* a stream the platform had accepted
CancelledInStream ==
    /\ lastOp = "Run"
    /\ cancelAt = "streaming"
    /\ ExecCalls # <<>>
    /\ ExecCalls[1].err = NilErr

\* the pod is gone or has left phase running: its process cannot go on
RemoteProcessEnded == PodObj \notin objs \/ podPhase # "Running"

\* C16: when the context is cancelled while Run is suspended in the readiness
\* wait or inside the exec stream, Run returns without the remote process
\* having to end: no run stays suspended for ever after the cancellation with
\* the pod still running.
C16_CancelInterruptsBothSuspensions ==
    (CancelledWhileBlocked \/ CancelledInStream)
        ~> (Returned("Run") \/ (CancelledInStream /\ RemoteProcessEnded))

\* C17: every remote call of a Run is a list, a watch or an exec, never a
\* create or a delete, whatever Run returns; and no step of a Run changes
\* the set of remote objects: where that set changes while a Run is under way,
\* Run itself has not moved and has issued no call (another actor removed the
\* pod).
C17_RunOnlyReadsAndAttaches ==
    /\ [](lastOp = "Run" =>
            \A i \in 1..Len(calls) : calls[i].op \in {"list", "watch", "exec"})
    /\ [][(InRun /\ objs' # objs) =>
            /\ pc' = pc
            /\ calls' = calls
            /\ <<waitRes, runState, runErr, executorErr, streamErr, flushed>>' =
               <<waitRes, runState, runErr, executorErr, streamErr, flushed>>]_vars

\* a Run that waited, attached and returned the exit status 1 of the remote
\* process, with the objects of Setup as Setup left them
C17_Witness ==
    /\ Returned("Run")
    /\ hasPull
    /\ opsDone = <<[op |-> "Setup", clean |-> TRUE]>>
    /\ [i \in 1..Len(calls) |-> calls[i].op] = <<"list", "watch", "exec">>
    /\ ~runState.isNil
    /\ runState.ExitCode = 1
    /\ objs = {PullObj, SecretObj, PodObj}

\* C18 as stated: exec is issued only in a Run whose wait has evaluated an
\* event that shows the pod running.
C18_ExecOnlyAfterRunningObserved ==
    (lastOp = "Run" /\ ExecCalls # <<>>) =>
        (lastEvent # <<>> /\ RunningEventOfTarget(lastEvent[1]))

\* C18, amended: exec is issued only in a Run whose wait returned nil, which
\* it did either on an event that shows the pod running, the pod having been
\* in the store at the precondition, or at the precondition itself, which
\* found the pod absent from the store: then no event was evaluated and exec
\* is issued for a pod that was never observed.
C18_ExecAfterRunningOrAbsent ==
    (lastOp = "Run" /\ ExecCalls # <<>>) =>
        /\ waitRes = NilErr
        /\ \/ /\ precond = "present"
              /\ lastEvent # <<>>
              /\ RunningEventOfTarget(lastEvent[1])
           \/ /\ precond = "absent"
              /\ lastEvent = <<>>

\* Run issued exec after a precondition that did not find the pod Setup had
\* created: it was deleted before the informer listed
C18_Witness ==
    /\ lastOp = "Run"
    /\ opsDone = <<[op |-> "Setup", clean |-> TRUE]>>
    /\ precond = "absent"
    /\ lastEvent = <<>>
    /\ ExecCalls # <<>>
    /\ ExecCalls[1].err = TransportError

\* C19: when Run has returned, it returned either a State and a nil error or
\* a nil State and a non-nil error, and a State it returned has Exited true
\* and OOMKilled false.
C19_ExactlyOneOfStateAndError ==
    Returned("Run") =>
        /\ runState.isNil <=> runErr # NilErr
        /\ ~runState.isNil => (runState.Exited /\ ~runState.OOMKilled)

\* Run returned the State of a remote process that exited with status 1
C19_Witness ==
    /\ Returned("Run")
    /\ streamErr = CodeExitError(1)
    /\ runErr = NilErr
    /\ runState = [isNil |-> FALSE, Exited |-> TRUE, ExitCode |-> 1, OOMKilled |-> FALSE]

====
